---- MODULE Spec2Model ----
(***************************************************************************)
(* A model of bicimad/bicimad.py: the link catalog UrlEMT (index page      *)
(* scraping, link lookup by month and year, archive download) and the trip *)
(* dataset BiciMad (load, clean, data accessor, resume).                   *)
(*                                                                         *)
(* Text is a sequence of one-character strings, so that the three regular  *)
(* expressions of the source are matched character by character with       *)
(* Python's backtracking order (leftmost match, greedy stars, "." matching *)
(* every character but the line feed).                                     *)
(***************************************************************************)
EXTENDS Integers, Sequences, FiniteSets, TLC

\* ------------------------------------------------------------------ bounds

\* Anchors on one index page.
MaxAnchors == 2
\* Rows of one CSV file.
MaxRows == 2
\* Calls (data, clean, resume) made on one loaded dataset.
MaxOps == 3

\* -------------------------------------------------------------------- text

NL == "\n"
QUOTE == "\""

\* txt[from .. to-1], Python's txt[from:to] with 1-based from.
Slice(txt, from, to) == SubSeq(txt, from, to - 1)

\* Whether lit occurs in txt at position p.
OccursAt(lit, txt, p) ==
    /\ p >= 1
    /\ p + Len(lit) - 1 <= Len(txt)
    /\ SubSeq(txt, p, p + Len(lit) - 1) = lit

\* Python's `lit in txt`.
Contains(txt, lit) == \E p \in 1..(Len(txt) + 1) : OccursAt(lit, txt, p)

\* Python's txt.endswith(lit).
EndsWith(txt, lit) == OccursAt(lit, txt, Len(txt) - Len(lit) + 1)

Digit(d) == CASE d = 0 -> "0" [] d = 1 -> "1" [] d = 2 -> "2" [] d = 3 -> "3"
              [] d = 4 -> "4" [] d = 5 -> "5" [] d = 6 -> "6" [] d = 7 -> "7"
              [] d = 8 -> "8" [] d = 9 -> "9"

Digits == {"0", "1", "2", "3", "4", "5", "6", "7", "8", "9"}

RECURSIVE NatStr(_)
\* The decimal digits of a natural number.
NatStr(n) == IF n < 10 THEN <<Digit(n)>> ELSE NatStr(n \div 10) \o <<Digit(n % 10)>>

\* Python's str(n) of an int.
IntStr(n) == IF n < 0 THEN <<"-">> \o NatStr(-n) ELSE NatStr(n)

\* ------------------------------------------------------- Python values

\* The month and year arguments are not validated: an int or a str.
PyInt(n) == [t |-> "int", v |-> n]
PyStr(s) == [t |-> "str", s |-> s]

\* str(x), what an f-string's {x} interpolates.
PyToStr(x) == IF x.t = "int" THEN IntStr(x.v) ELSE x.s

RECURSIVE ZeroPad(_, _)
ZeroPad(s, w) == IF Len(s) >= w THEN s ELSE ZeroPad(<<"0">> \o s, w)

RECURSIVE ZeroFill(_, _)
ZeroFill(s, w) == IF Len(s) >= w THEN s ELSE ZeroFill(s \o <<"0">>, w)

\* format(x, "02"), what an f-string's {x:02} interpolates: the set of
\* outcomes. An int is zero-padded after its sign. A str is left-aligned and
\* filled with "0" by Python >= 3.10 and raises ValueError("'=' alignment not
\* allowed in string format specifier") before 3.10: the source pins no
\* interpreter, so both outcomes are possible.
Format02(x) ==
    IF x.t = "int"
    THEN {[ok |-> TRUE,
           s |-> IF x.v < 0 THEN <<"-">> \o ZeroPad(NatStr(-x.v), 1)
                 ELSE ZeroPad(NatStr(x.v), 2)]}
    ELSE {[ok |-> TRUE, s |-> ZeroFill(x.s, 2)], [ok |-> FALSE, s |-> <<>>]}

\* -------------------------------------------------- regular expressions

\* A compiled pattern is a sequence of atoms: a literal character or "."
\* (any character but the line feed), each possibly starred. Groups of the
\* source's patterns only name parts of the match and are taken by offset.
RECURSIVE Compile(_)
Compile(p) ==
    IF p = <<>> THEN <<>>
    ELSE LET star == Len(p) >= 2 /\ p[2] = "*"
             atom == [any |-> p[1] = ".", ch |-> p[1], star |-> star]
         IN  <<atom>> \o Compile(IF star THEN Tail(Tail(p)) ELSE Tail(p))

AtomMatches(a, c) == IF a.any THEN c # NL ELSE c = a.ch

Max(S) == CHOOSE n \in S : \A m \in S : m <= n
Min(S) == CHOOSE n \in S : \A m \in S : n <= m

\* How many consecutive characters of txt from p on atom a matches.
Run(a, txt, p) ==
    LET stops == {i \in p..Len(txt) : ~AtomMatches(a, txt[i])}
    IN  IF stops = {} THEN Len(txt) + 1 - p ELSE Min(stops) - p

RECURSIVE MatchFrom(_, _, _, _)
\* The end (the position after the last character matched) of the match of
\* atoms k.. at p that backtracking finds first, or 0 when there is none. A
\* star is greedy: backtracking tries its longest repetition first and gives
\* back one character at a time, so the first match found is the one with
\* the most repetitions n after which the rest of the pattern matches. Each
\* n is kept with the end e it leads to as the number n * w + e.
MatchFrom(atoms, k, txt, p) ==
    IF k > Len(atoms) THEN p
    ELSE IF atoms[k].star
         THEN LET w == Len(txt) + 2
                  tries == {n * w + MatchFrom(atoms, k + 1, txt, p + n) :
                               n \in 0..Run(atoms[k], txt, p)}
                  found == {c \in tries : c % w # 0}
              IN  IF found = {} THEN 0 ELSE Max(found) % w
         ELSE IF p <= Len(txt) /\ AtomMatches(atoms[k], txt[p])
              THEN MatchFrom(atoms, k + 1, txt, p + 1)
              ELSE 0

NoMatch == [start |-> 0, end |-> 0]

\* pattern.search(txt, pos): the leftmost match at or after pos. When the
\* pattern begins with ".*" and does not match at b, it matches at no later
\* start of the same line either (".*" at b reaches every one of them), so
\* only pos and the starts of later lines are tried.
SearchFrom(atoms, txt, pos) ==
    LET w == Len(txt) + 2
        line_only == atoms # <<>> /\ atoms[1].star /\ atoms[1].any
        tries == {b * w + MatchFrom(atoms, 1, txt, b) :
                     b \in {c \in pos..(Len(txt) + 1) :
                               line_only => (c = pos \/ txt[c - 1] = NL)}}
        found == {c \in tries : c % w # 0}
    IN  IF found = {} THEN NoMatch
        ELSE [start |-> Min(found) \div w, end |-> Min(found) % w]

Search(atoms, txt) == SearchFrom(atoms, txt, 1)

RECURSIVE FindIter(_, _, _)
\* pattern.finditer(txt): the successive non-overlapping matches.
FindIter(atoms, txt, pos) ==
    LET m == SearchFrom(atoms, txt, pos)
    IN  IF m = NoMatch THEN <<>>
        ELSE <<m>> \o FindIter(atoms, txt, IF m.end = m.start THEN m.end + 1 ELSE m.end)

\* ------------------------------------------------------------ UrlEMT

\* r"(href=\")(?P<link>.*trips.*aspx)": group 1 is the six characters
\* href=" and the group link is the rest of the match.
HrefLit == <<"h", "r", "e", "f", "=", "\"">>
urls_re == Compile(HrefLit \o <<".", "*", "t", "r", "i", "p", "s", ".", "*", "a", "s", "p", "x">>)

\* select_valid_urls.get_links: the set of the link groups of all matches.
get_links(html_txt) ==
    LET ms == FindIter(urls_re, html_txt, 1)
    IN  {Slice(html_txt, ms[i].start + Len(HrefLit), ms[i].end) : i \in 1..Len(ms)}

\* fr".*trips_{year}_{month:02}.*" with month already formatted.
filename_pattern(year, month02) ==
    Compile(<<".", "*", "t", "r", "i", "p", "s", "_">> \o PyToStr(year) \o <<"_">> \o month02 \o <<".", "*">>)

\* url_match with the leading ".*" of the pattern left out: the match starts
\* at "trips_" and the directory part of the link is lost.
url_match_unanchored(atoms, link) ==
    LET m == Search(Tail(atoms), link)
    IN  IF m = NoMatch THEN <<>> ELSE Slice(link, m.start, m.end)

\* s.group() for `s = filename_re.search(i)`, <<>> standing for None (a
\* match of this pattern is never empty: it holds "trips_").
url_match(atoms, link) ==
    LET m == Search(atoms, link)
    IN  IF m = NoMatch THEN <<>> ELSE Slice(link, m.start, m.end)

\* get_url: the outcomes. The loop runs over a set, whose order is
\* arbitrary: any matching link may be the first found. msg tells the two
\* ValueErrors apart: "range" is the source's own (its text names the period
\* June 2021 to February 2023), "format" is the f-string's.
get_url(valid_urls, month, year) ==
    UNION {
        IF ~f.ok THEN {[ok |-> FALSE, err |-> "ValueError", msg |-> "format", url |-> <<>>]}
        ELSE LET atoms == filename_pattern(year, f.s)
                 found == {url_match(atoms, i) : i \in valid_urls} \ {<<>>}
             IN  IF found = {}
                 THEN {[ok |-> FALSE, err |-> "ValueError", msg |-> "range", url |-> <<>>]}
                 ELSE {[ok |-> TRUE, err |-> "", msg |-> "", url |-> u] : u \in found}
        : f \in Format02(month)}

\* r"(trips.*)-": group 1 is the match without its last character.
csv_name_re == Compile(<<"t", "r", "i", "p", "s", ".", "*", "-">>)

\* get_csv's `filename`: search(url).group(1) + ".csv"; <<>> when search
\* returns None (the source then raises AttributeError).
csv_filename(url) ==
    LET m == Search(csv_name_re, url)
    IN  IF m = NoMatch THEN <<>>
        ELSE Slice(url, m.start, m.end - 1) \o <<".", "c", "s", "v">>

\* status_ok written as `status_code < 400`: every success status passes.
status_ok_below_400(status_code) == status_code < 400

\* `if r.status_code != 200: raise ConnectionError(...)`, in
\* select_valid_urls and in get_csv alike.
status_ok(status_code) == status_code = 200

\* select_valid_urls without its status check: the links of whatever came.
select_valid_urls_unchecked(status_code, text) ==
    [ok |-> TRUE, err |-> "", links |-> get_links(text)]

\* select_valid_urls after its request returned: the link set, or the error.
select_valid_urls(status_code, text) ==
    IF ~status_ok(status_code)
    THEN [ok |-> FALSE, err |-> "ConnectionError", links |-> {}]
    ELSE [ok |-> TRUE, err |-> "", links |-> get_links(text)]

\* ----------------------------------------------------------- tables

NaN == [t |-> "nan", v |-> 0, s |-> <<>>]
\* A finite float, in tenths: Float(27) is 2.7.
Float(v) == [t |-> "float", v |-> v, s |-> <<>>]
Str(s) == [t |-> "str", v |-> 0, s |-> s]
\* pd.NaT, and a parsed timestamp.
NaT == [t |-> "nat", v |-> 0, s |-> <<>>]
Timestamp(s) == [t |-> "timestamp", v |-> 0, s |-> s]

\* get_data's `columns`, the allow-list.
columns == <<"idBike", "fleet", "trip_minutes", "geolocation_unlock", "address_unlock",
             "unlock_date", "locktype", "unlocktype", "geolocation_lock", "address_lock",
             "lock_date", "station_unlock", "unlock_station_name", "station_lock",
             "lock_station_name">>

Range(f) == {f[i] : i \in DOMAIN f}

AllowList == Range(columns)

NoTable == [columns |-> <<>>, rows |-> <<>>]

\* pd.to_datetime(x, errors='coerce') of one index value: text of the shape
\* dddd-dd-dd is a timestamp, anything else becomes NaT.
to_datetime(x) ==
    IF /\ x.t = "str"
       /\ Len(x.s) = 10
       /\ \A i \in 1..10 : IF i \in {5, 8} THEN x.s[i] = "-" ELSE x.s[i] \in Digits
    THEN Timestamp(x.s)
    ELSE NaT

\* get_data after get_csv returned: the frame read_csv gives (index column
\* fecha), the columns outside the allow-list dropped, the index parsed.
get_data(csv) ==
    LET keep == SelectSeq(csv.columns, LAMBDA c : c \in AllowList)
        kept == Range(keep)
    IN  [columns |-> keep,
         rows |-> [i \in 1..Len(csv.rows) |->
                      [fecha |-> to_datetime(csv.rows[i].fecha),
                       cells |-> [c \in kept |-> csv.rows[i].cells[c]]]]]

\* int(x) of a float: truncation toward zero.
Trunc(v) == IF v >= 0 THEN v \div 10 ELSE -((-v) \div 10)

\* clean_cell written as `str(x)[:-2] if not pd.isna(x) else x`, which cuts
\* the ".0" of a float and two characters of every string.
clean_cell_slice(x) ==
    IF x.t = "float" THEN Str(IntStr(Trunc(x.v)))
    ELSE IF x.t = "str" THEN Str(SubSeq(x.s, 1, Len(x.s) - 2))
    ELSE x

\* clean's lambda: str(int(x)) if isinstance(x, float) and not pd.isna(x) else x
clean_cell(x) == IF x.t = "float" THEN Str(IntStr(Trunc(x.v))) ELSE x

\* clean's `col_name` list.
clean_columns == {"fleet", "idBike", "station_lock", "station_unlock"}

\* dropna(axis=0, how='all'): a row goes when every cell of it is NaN (the
\* index is not a cell).
dropna_all(df) ==
    [df EXCEPT !.rows = SelectSeq(df.rows, LAMBDA row : \E c \in Range(df.columns) : row.cells[c] # NaN)]

\* BiciMad.clean: the frame it leaves in self._data.
clean(df) ==
    LET d == dropna_all(df)
    IN  [d EXCEPT !.rows = [i \in 1..Len(d.rows) |->
            [d.rows[i] EXCEPT !.cells = [c \in Range(d.columns) |->
                IF c \in clean_columns THEN clean_cell(d.rows[i].cells[c])
                ELSE d.rows[i].cells[c]]]]]

\* The data property without its clean() call.
data_property_raw(df) == df

\* The data property: clean() runs, then self._data is returned.
data_property(df) == clean(df)

\* size written as the row count, len(df).
size_rows(df) == Len(df.rows)

\* DataFrame.size: rows times columns.
size(df) == Len(df.rows) * Len(df.columns)

RECURSIVE ColumnSum(_, _)
\* Series.sum() of a float column, NaN skipped; in tenths.
ColumnSum(rows, c) ==
    IF rows = <<>> THEN 0
    ELSE (IF Head(rows).cells[c].t = "float" THEN Head(rows).cells[c].v ELSE 0)
         + ColumnSum(Tail(rows), c)

\* Series.value_counts(): value |-> count over the non-null values.
value_counts(rows, c) ==
    LET vals == {rows[i].cells[c] : i \in 1..Len(rows)} \ {NaN}
    IN  [v \in vals |-> Cardinality({i \in 1..Len(rows) : rows[i].cells[c] = v})]

NoSummary == [ok |-> FALSE, err |-> ""]

\* resume: the outcomes. value_counts sorts by count with an unstable sort,
\* so any of the most frequent addresses may come first; with no address at
\* all .index[0] raises IndexError. total_time is sum / 60 as the fraction
\* num / den (the sum is in tenths of a minute).
resume(df, month, year) ==
    LET data == data_property(df)
        vc == value_counts(data.rows, "address_unlock")
        top == {v \in DOMAIN vc : \A w \in DOMAIN vc : vc[w] <= vc[v]}
    IN  IF top = {} THEN {[ok |-> FALSE, err |-> "IndexError"]}
        ELSE {[ok |-> TRUE, err |-> "",
               year |-> <<"2", "0">> \o PyToStr(year),
               month |-> month,
               total_uses |-> size(data),
               total_time |-> [num |-> ColumnSum(data.rows, "trip_minutes"), den |-> 600],
               most_popular_station |-> v,
               uses_from_most_popular |-> vc[v]] : v \in top}

\* get_csv after its request returned: the status check, ZipFile(content),
\* the entry name, zfile.open(filename), in the source's order. A payload is
\* [valid, entry, csv]: whether it is a zip archive, the name of its entry
\* and the entry's text.
get_csv(status_code, payload, url) ==
    LET fn == csv_filename(url)
        raised(e, f) == [ok |-> FALSE, err |-> e, filename |-> f, csv |-> <<>>]
    IN  IF ~status_ok(status_code) THEN raised("ConnectionError", <<>>)
        ELSE IF ~payload.valid THEN raised("BadZipFile", <<>>)
        ELSE IF fn = <<>> THEN raised("AttributeError", <<>>)
        ELSE IF fn # payload.entry THEN raised("KeyError", fn)
        ELSE [ok |-> TRUE, err |-> "", filename |-> fn, csv |-> payload.csv]

\* ------------------------------------------------------------ inputs

\* The hrefs an index page may carry.
Hrefs == {
    <<"/", "a", "/", "t", "r", "i", "p", "s", "_", "2", "3", "_", "0", "1", "-", "c", "s", "v", ".", "a", "s", "p", "x">>,
    <<"/", "b", "/", "t", "r", "i", "p", "s", "_", "2", "3", "_", "0", "2", "-", "c", "s", "v", ".", "a", "s", "p", "x">>,
    <<"/", "t", "r", "i", "p", "s", "/", "t", "r", "i", "p", "s", "_", "2", "3", "_", "0", "2", "-", "c", "s", "v", ".", "a", "s", "p", "x">>,
    <<"/", "a", "/", "t", "r", "i", "p", "s", "_", "2", "3", "_", "0", "2", ".", "a", "s", "p", "x">>,
    <<"/", "c", "/", "t", "r", "i", "p", "s", "_", "3", "_", "0", "2", "-", "c", "s", "v", ".", "a", "s", "p", "x">>,
    <<"/", "x", ".", "h", "t", "m", "l">>}

Anchor(href) == <<"<", "a", " ", "h", "r", "e", "f", "=", "\"">> \o href \o <<"\"", ">">>

RECURSIVE PageText(_, _)
\* Anchors, consecutive ones separated by seps[i] (a line feed or nothing).
PageText(hrefs, seps) ==
    IF hrefs = <<>> THEN <<>>
    ELSE IF Len(hrefs) = 1 THEN Anchor(hrefs[1])
    ELSE Anchor(hrefs[1]) \o seps[1] \o PageText(Tail(hrefs), Tail(seps))

Pages ==
    UNION {{PageText(hs, ss) : hs \in [1..k -> Hrefs], ss \in [1..(k - 1) -> {<<NL>>, <<>>}]}
           : k \in 0..MaxAnchors}

NotFound == <<"N", "o", "t", " ", "F", "o", "u", "n", "d">>

Statuses == {200, 204, 404}

\* What the index request may return: any page with status 200, and an
\* error page or a page with a link under another status.
IndexResponses ==
    {[status_code |-> 200, text |-> t] : t \in Pages}
    \cup {[status_code |-> c, text |-> t] :
            c \in Statuses \ {200},
            t \in {NotFound, Anchor(<<"/", "b", "/", "t", "r", "i", "p", "s", "_", "2", "3", "_", "0", "2", "-", "c", "s", "v", ".", "a", "s", "p", "x">>)}}

\* The (month, year) arguments of a call: in the published range, out of
\* it, a one-digit year (as the tests' BiciMad(2, 3)), and malformed ones.
Dates == {
    <<PyInt(1), PyInt(23)>>,
    <<PyInt(2), PyInt(23)>>,
    <<PyInt(16), PyInt(22)>>,
    <<PyInt(2), PyInt(3)>>,
    <<PyStr(<<"p", "a", "t", "a", "t", "a">>), PyInt(22)>>,
    <<PyInt(2), PyStr(<<".", ".">>)>>}

GoodDate == Str(<<"2", "0", "2", "3", "-", "0", "2", "-", "0", "1">>)
BadDate == Str(<<"b", "a", "d">>)
PlazaA == Str(<<"P", "l", "a", "z", "a", " ", "A">>)
PlazaB == Str(<<"P", "l", "a", "z", "a", " ", "B">>)

\* The columns of a CSV file: the allow-list, and with extra one more.
CsvColumns(extra) == IF extra THEN <<"extra">> \o columns ELSE columns

\* A CSV row as read_csv types it: numeric columns hold floats and NaN,
\* text columns hold strings and NaN. Every float is finite.
CsvRow(extra, fecha, idBike, fleet, station_unlock, station_lock, minutes, address, rest) ==
    [fecha |-> fecha,
     cells |-> [c \in Range(CsvColumns(extra)) |->
        CASE c = "idBike" -> idBike
          [] c = "fleet" -> fleet
          [] c = "station_unlock" -> station_unlock
          [] c = "station_lock" -> station_lock
          [] c = "trip_minutes" -> minutes
          [] c = "address_unlock" -> address
          [] c = "extra" -> Str(<<"e">>)
          [] OTHER -> rest]]

CsvRows(extra) == {
    CsvRow(extra, GoodDate, Float(70), Float(10), Float(430), Str(<<"1", "2", "a">>), Float(300), PlazaA, Str(<<"x">>)),
    CsvRow(extra, GoodDate, NaN, NaN, NaN, NaN, NaN, NaN, NaN),
    CsvRow(extra, BadDate, NaN, Float(10), Float(27), NaN, NaN, PlazaB, NaN),
    CsvRow(extra, GoodDate, Float(81), Float(10), NaN, NaN, Float(905), NaN, Str(<<"x">>))}

Csvs ==
    UNION {{[columns |-> CsvColumns(extra), rows |-> rs] : rs \in [1..k -> CsvRows(extra)]}
           : k \in 0..MaxRows, extra \in BOOLEAN}

NoPayload == [valid |-> FALSE, entry |-> <<>>, csv |-> <<>>]

\* The name the portal gives the one entry of the archive behind a link: the
\* link's last path segment, its -csv.aspx (or .aspx) cut off, plus .csv.
PortalEntry(link) ==
    LET slashes == {i \in 1..Len(link) : link[i] = "/"}
        segment == IF slashes = {} THEN link ELSE SubSeq(link, Max(slashes) + 1, Len(link))
        suffix == <<"-", "c", "s", "v", ".", "a", "s", "p", "x">>
        aspx == <<".", "a", "s", "p", "x">>
        stem == IF EndsWith(segment, suffix) THEN SubSeq(segment, 1, Len(segment) - Len(suffix))
                ELSE IF EndsWith(segment, aspx) THEN SubSeq(segment, 1, Len(segment) - Len(aspx))
                ELSE segment
    IN  stem \o <<".", "c", "s", "v">>

\* What the archive request for a link may return: for a path the portal
\* serves, its archive with any CSV file in it; for every path, something
\* that is no archive or an error status.
ArchiveResponses(link) ==
    {[status_code |-> 200, content |-> [valid |-> TRUE, entry |-> PortalEntry(link), csv |-> c]] :
        c \in IF link \in Hrefs THEN Csvs ELSE {}}
    \cup {[status_code |-> c, content |-> NoPayload] : c \in Statuses}

\* ------------------------------------------------------------- state

VARIABLES
    obj,            \* what the caller holds: "none", "catalog" (a UrlEMT), "dataset" (a BiciMad)
    pc,             \* "idle", or where the running call is blocked or stands
    op,             \* the call running or last finished
    month, year,    \* its month and year arguments (a BiciMad's _month, _year)
    r,              \* the index response `r` of select_valid_urls, while it runs
    index_status,   \* status of the index response received, 0 before
    archive_status, \* status of the archive response received, 0 before
    valid_urls,     \* the _valid_urls of the UrlEMT the caller holds
    url,            \* get_url's return value (get_csv's `url`)
    filename,       \* get_csv's `filename`
    requests,       \* the requests issued, in order
    result,         \* how the last call ended: [st, err, msg]
    data,           \* the BiciMad's _data
    loaded,         \* _data as get_data returned it
    returned,       \* what the data property returned last
    summary,        \* what resume returned last
    nops            \* calls made on the dataset held

vars == <<obj, pc, op, month, year, r, index_status, archive_status, valid_urls, url,
          filename, requests, result, data, loaded, returned, summary, nops>>

NoResponse == [status_code |-> 0, text |-> <<>>]
NoResult == [st |-> "none", err |-> "", msg |-> ""]
Returned == [st |-> "ok", err |-> "", msg |-> ""]
Raised(e, m) == [st |-> "raised", err |-> e, msg |-> m]

Init ==
    /\ obj = "none" /\ pc = "idle" /\ op = "none"
    /\ month = PyInt(0) /\ year = PyInt(0)
    /\ r = NoResponse /\ index_status = 0 /\ archive_status = 0
    /\ valid_urls = {} /\ url = <<>> /\ filename = <<>>
    /\ requests = <<>> /\ result = NoResult
    /\ data = NoTable /\ loaded = NoTable /\ returned = NoTable
    /\ summary = NoSummary /\ nops = 0

\* `UrlEMT()` up to the request of select_valid_urls.
NewUrlEMT ==
    /\ obj = "none" /\ op = "none" /\ pc = "idle"
    /\ op' = "UrlEMT"
    /\ requests' = Append(requests, "index")
    /\ pc' = "index_wait"
    /\ UNCHANGED <<obj, month, year, r, index_status, archive_status, valid_urls, url,
                   filename, result, data, loaded, returned, summary, nops>>

\* `BiciMad(month, year)` up to the request of select_valid_urls, which
\* get_data's `UrlEMT()` makes.
NewBiciMad(m, y) ==
    /\ obj = "none" /\ op = "none" /\ pc = "idle"
    /\ op' = "BiciMad"
    /\ month' = m /\ year' = y
    /\ requests' = Append(requests, "index")
    /\ pc' = "index_wait"
    /\ UNCHANGED <<obj, r, index_status, archive_status, valid_urls, url,
                   filename, result, data, loaded, returned, summary, nops>>

\* requests.get returns the index response.
IndexResponse(resp) ==
    /\ pc = "index_wait"
    /\ r' = resp
    /\ pc' = "index_got"
    /\ UNCHANGED <<obj, op, month, year, index_status, archive_status, valid_urls, url,
                   filename, requests, result, data, loaded, returned, summary, nops>>

\* The rest of `UrlEMT()`: select_valid_urls raises or __init__ keeps the links.
UrlEMTInit ==
    /\ pc = "index_got" /\ op = "UrlEMT"
    /\ LET s == select_valid_urls(r.status_code, r.text)
       IN  /\ result' = IF s.ok THEN Returned ELSE Raised(s.err, "")
           /\ obj' = IF s.ok THEN "catalog" ELSE obj
           /\ valid_urls' = s.links
    /\ index_status' = r.status_code
    /\ r' = NoResponse
    /\ pc' = "idle"
    /\ UNCHANGED <<op, month, year, archive_status, url, filename, requests,
                   data, loaded, returned, summary, nops>>

\* The rest of get_data's `UrlEMT()` and get_csv up to its request: the
\* link set (of a UrlEMT that get_data alone holds), get_url, then the
\* archive request.
GetDataIndex ==
    /\ pc = "index_got" /\ op = "BiciMad"
    /\ index_status' = r.status_code
    /\ r' = NoResponse
    /\ LET s == select_valid_urls(r.status_code, r.text)
       IN  /\ IF ~s.ok
              THEN /\ result' = Raised(s.err, "")
                   /\ pc' = "idle"
                   /\ UNCHANGED <<url, requests>>
              ELSE \E g \in get_url(s.links, month, year) :
                      /\ url' = g.url
                      /\ IF g.ok
                         THEN /\ requests' = Append(requests, "archive")
                              /\ pc' = "archive_wait"
                              /\ UNCHANGED result
                         ELSE /\ result' = Raised(g.err, g.msg)
                              /\ pc' = "idle"
                              /\ UNCHANGED requests
    /\ UNCHANGED <<obj, op, month, year, archive_status, valid_urls, filename,
                   data, loaded, returned, summary, nops>>

\* requests.get returns the archive response; the rest of get_csv, of
\* get_data and of BiciMad.__init__.
ArchiveResponse(resp) ==
    /\ pc = "archive_wait"
    /\ archive_status' = resp.status_code
    /\ LET c == get_csv(resp.status_code, resp.content, url)
       IN  /\ filename' = c.filename
           /\ result' = IF c.ok THEN Returned ELSE Raised(c.err, "")
           /\ obj' = IF c.ok THEN "dataset" ELSE obj
           /\ data' = IF c.ok THEN get_data(c.csv) ELSE data
           /\ loaded' = data'
    /\ pc' = "idle"
    /\ UNCHANGED <<op, month, year, r, index_status, valid_urls, url, requests,
                   returned, summary, nops>>

\* catalog.get_url(m, y).
GetUrl(m, y) ==
    /\ obj = "catalog" /\ pc = "idle"
    /\ op' = "get_url" /\ month' = m /\ year' = y
    /\ \E g \in get_url(valid_urls, m, y) :
          /\ url' = g.url
          /\ result' = IF g.ok THEN Returned ELSE Raised(g.err, g.msg)
    /\ UNCHANGED <<obj, pc, r, index_status, archive_status, valid_urls, filename,
                   requests, data, loaded, returned, summary, nops>>

\* dataset.clean().
Clean ==
    /\ obj = "dataset" /\ pc = "idle" /\ nops < MaxOps
    /\ op' = "clean"
    /\ nops' = nops + 1
    /\ data' = clean(data)
    /\ result' = Returned
    /\ UNCHANGED <<obj, pc, month, year, r, index_status, archive_status, valid_urls, url,
                   filename, requests, loaded, returned, summary>>

\* dataset.data.
Data ==
    /\ obj = "dataset" /\ pc = "idle" /\ nops < MaxOps
    /\ op' = "data"
    /\ nops' = nops + 1
    /\ data' = data_property(data)
    /\ returned' = data'
    /\ result' = Returned
    /\ UNCHANGED <<obj, pc, month, year, r, index_status, archive_status, valid_urls, url,
                   filename, requests, loaded, summary>>

\* dataset.resume(), which reads self.data first.
Resume ==
    /\ obj = "dataset" /\ pc = "idle" /\ nops < MaxOps
    /\ op' = "resume"
    /\ nops' = nops + 1
    /\ data' = data_property(data)
    /\ returned' = data'
    /\ \E s \in resume(data, month, year) :
          /\ summary' = s
          /\ result' = IF s.ok THEN Returned ELSE Raised(s.err, "")
    /\ UNCHANGED <<obj, pc, month, year, r, index_status, archive_status, valid_urls, url,
                   filename, requests, loaded>>

Next ==
    \/ NewUrlEMT
    \/ \E d \in Dates : NewBiciMad(d[1], d[2])
    \/ \E resp \in IndexResponses : IndexResponse(resp)
    \/ UrlEMTInit
    \/ GetDataIndex
    \/ \E resp \in ArchiveResponses(url) : ArchiveResponse(resp)
    \/ \E d \in Dates : GetUrl(d[1], d[2])
    \/ Clean
    \/ Data
    \/ Resume

Spec == Init /\ [][Next]_vars

\* ------------------------------------------------------------- claims

Trips == <<"t", "r", "i", "p", "s">>
Aspx == <<"a", "s", "p", "x">>

\* C1: a response with a status other than 200 makes the call fail with
\* ConnectionError and produce nothing: after such an index response there
\* is no link set, no catalog and no further request; after such an archive
\* response there is no entry name, no table and no dataset.
C1_Non200RaisesConnectionError ==
    /\ (pc = "idle" /\ index_status \notin {0, 200}) =>
          /\ result = Raised("ConnectionError", "")
          /\ obj = "none" /\ valid_urls = {} /\ url = <<>>
          /\ requests = <<"index">>
          /\ data = NoTable
    /\ (pc = "idle" /\ archive_status \notin {0, 200}) =>
          /\ result = Raised("ConnectionError", "")
          /\ obj = "none" /\ filename = <<>>
          /\ data = NoTable /\ loaded = NoTable

\* C1's case: the archive request came back with a success status that is
\* not 200, after an index page that was fine.
C1_Witness ==
    /\ pc = "idle" /\ op = "BiciMad"
    /\ index_status = 200 /\ archive_status = 204
    /\ result.err = "ConnectionError"

\* The month zero-padded to two digits, for a month >= 0.
Padded(n) == IF n < 10 THEN <<"0", Digit(n)>> ELSE NatStr(n)

\* trips_<year>_<month zero-padded to 2 digits>
DateKey(m, y) == <<"t", "r", "i", "p", "s", "_">> \o NatStr(y) \o <<"_">> \o Padded(m)

\* C2: for an integer month and year, get_url returns a whole element of the
\* link set that contains trips_<year>_<month, two digits>, and raises its
\* ValueError exactly when no element contains it.
C2_GetUrlReturnsMatchingLink ==
    (op = "get_url" /\ month.t = "int" /\ year.t = "int") =>
        LET hits == {l \in valid_urls : Contains(l, DateKey(month.v, year.v))}
        IN  IF hits = {}
            THEN result = Raised("ValueError", "range") /\ url = <<>>
            ELSE result = Returned /\ url \in hits

\* C2's case: a link was returned from a set that also holds a link of
\* another month.
C2_Witness ==
    /\ op = "get_url" /\ month.t = "int" /\ year.t = "int"
    /\ result = Returned
    /\ url \in valid_urls
    /\ \E l \in valid_urls : ~Contains(l, DateKey(month.v, year.v))

\* C3: a month or year that is no number is not validated: get_url finds no
\* match and raises the ValueError whose text names the supported range.
C3_MalformedDateRaisesRangeError ==
    (op = "get_url" /\ (month.t = "str" \/ year.t = "str")) =>
        result = Raised("ValueError", "range")

\* The values of the href attributes of a text: from each href=" to the
\* next double quote.
HrefValues(txt) ==
    {LET from == p + Len(HrefLit)
         quotes == {q \in from..Len(txt) : txt[q] = QUOTE}
     IN  Slice(txt, from, Min(quotes))
     : p \in {q \in 1..Len(txt) : OccursAt(HrefLit, txt, q)
                                  /\ \E e \in (q + Len(HrefLit))..Len(txt) : txt[e] = QUOTE}}

\* C4: for an index page returned with status 200, the link set is exactly
\* the set of href values that contain "trips" and end in "aspx".
C4_LinksAreTheTripsHrefs ==
    [][(pc = "index_got" /\ op = "UrlEMT" /\ r.status_code = 200)
         => valid_urls' = {v \in HrefValues(r.text) : Contains(v, Trips) /\ EndsWith(v, Aspx)}]_vars

\* C5: clean() is idempotent: once the table has been cleaned, cleaning it
\* again leaves rows, row order, columns and cells as they are.
C5_CleanIdempotent ==
    (obj = "dataset" /\ nops >= 1) => clean(data) = data

\* C5's case: clean() was called twice in a row on a table that the first
\* call changed.
C5_Witness ==
    /\ obj = "dataset" /\ nops = 2 /\ op = "clean"
    /\ returned = NoTable /\ summary = NoSummary
    /\ data # loaded

\* C6: every access to data returns the held table cleaned, which is the
\* loaded table cleaned once, whatever calls came before.
C6_DataReturnsCleanedTable ==
    returned # NoTable => (returned = clean(loaded) /\ returned = data)

\* C6's case: data was read after other calls, and cleaning had changed the
\* loaded table.
C6_Witness ==
    /\ op = "data" /\ nops >= 2
    /\ returned # loaded

RECURSIVE SumTo(_, _, _)
\* The sum of the float cells of column c over the first n rows, in tenths.
SumTo(df, c, n) ==
    IF n = 0 THEN 0
    ELSE SumTo(df, c, n - 1) + (IF df.rows[n].cells[c].t = "float" THEN df.rows[n].cells[c].v ELSE 0)

\* How many rows of df hold v in column c.
Occurrences(df, c, v) == Cardinality({i \in 1..Len(df.rows) : df.rows[i].cells[c] = v})

C8_SummaryYearHasFourDigits ==
    summary.ok =>
        /\ Len(summary.year) = 4
        /\ \A i \in 1..Len(summary.year) : summary.year[i] \in Digits
        /\ summary.month.t = "int"
        /\ summary.month = month

\* C9: in a dataset load the index request comes first and once, the archive
\* request at most once and only after an index response with status 200 and
\* a link that get_url returned; when the index request fails or no link
\* matches there is no archive request, the error is the caller's result and
\* there is no table and no dataset.
C9_LoadRequestsInOrder ==
    op \notin {"none", "UrlEMT", "get_url"} =>
        /\ requests \in {<<"index">>, <<"index", "archive">>}
        /\ requests = <<"index", "archive">> => (index_status = 200 /\ url # <<>>)
        /\ (pc = "idle" /\ index_status # 200) =>
              /\ requests = <<"index">>
              /\ result = Raised("ConnectionError", "")
              /\ obj = "none" /\ data = NoTable
        /\ (pc = "idle" /\ index_status = 200 /\ url = <<>>) =>
              /\ requests = <<"index">>
              /\ result.st = "raised" /\ result.err = "ValueError"
              /\ obj = "none" /\ data = NoTable
        /\ obj = "dataset" => requests = <<"index", "archive">>

\* C9's case: the index page came with status 200 and no link of it matched
\* the date, so the load ended after one request.
C9_Witness ==
    /\ op = "BiciMad" /\ pc = "idle"
    /\ index_status = 200 /\ url = <<>>
    /\ result = Raised("ValueError", "range")
    /\ requests = <<"index">>

\* C10: the entry name get_csv reads is the link's last path segment with
\* its -csv.aspx cut off and .csv appended.
C10_EntryNameIsLastSegment ==
    filename # <<>> => filename = PortalEntry(url)

====
